---- MODULE Spec2Model ----
(***************************************************************************)
(* process_aia_file of utils/compiler.py as a state machine: one run of    *)
(* the function is a sequence of steps (extract, manifest, src check, one  *)
(* step per walked directory, the archive-name special case, the final     *)
(* deduplication), and the function can be called again on the same        *)
(* archive, in the same interpreter process or in a new one.               *)
(***************************************************************************)
EXTENDS Integers, Sequences, FiniteSets, TLC

VARIABLES
    filename,       \* os.path.basename(filepath)
    archive,        \* the file at filepath
    hashSeed,       \* the interpreter process's string-hash seed
    pc,             \* position of the running call
    extract_dir,    \* what exists under <temp_dir>/extracted
    project_info,   \* the dictionary under construction
    walked,         \* number of directories os.walk has yielded so far
    outcome,        \* how the call ended
    history,        \* the outcomes of the earlier calls on this archive
    tmpdirs,        \* the directories tempfile.mkdtemp made that still exist
    made,           \* how many directories mkdtemp has made
    handler,        \* the request being served by app.py, if any
    client,         \* what the last successful /upload response told the client
    log             \* the requests served so far

\* the state of app.py's request handlers
appvars == <<tmpdirs, made, handler, client, log>>

vars == <<filename, archive, hashSeed, pc, extract_dir, project_info, walked,
          outcome, history, tmpdirs, made, handler, client, log>>

----------------------------------------------------------------------------
(* Bounds of the model *)

MaxDirs == 2            \* directories below src/
MaxManifestLines == 2   \* lines of project.properties
MaxRuns == 2            \* calls of process_aia_file on the archive
NumSeeds == 2           \* interpreter processes told apart by hash seed
MaxRequests == 3        \* requests served by app.py

----------------------------------------------------------------------------
(* Decoded JSON values, as json.loads returns them *)

JStr(s) == [kind |-> "str", v |-> s]
JNum(n) == [kind |-> "num", v |-> n]
JList(xs) == [kind |-> "list", v |-> xs]
\* a dict: its (key, value) pairs in insertion order, keys unique
JObj(ps) == [kind |-> "obj", v |-> ps]
KV(k, x) == [k |-> k, v |-> x]

Keys(x) == {x.v[i].k : i \in DOMAIN x.v}
Get(x, key) == x.v[CHOOSE i \in DOMAIN x.v : x.v[i].k = key].v

\* str.__contains__ on the strings of the model: the pairs (s, needle) with
\* needle a proper substring of s
ProperSubstrings == {<<"My$Type", "$Type">>}
Contains(s, needle) == s = needle \/ <<s, needle>> \in ProperSubstrings

\* Python's `key in x` for a str key: "yes", "no" or "TypeError"
PyIn(key, x) ==
    CASE x.kind = "obj" -> IF key \in Keys(x) THEN "yes" ELSE "no"
      [] x.kind = "list" ->
            IF \E i \in DOMAIN x.v : x.v[i] = JStr(key) THEN "yes" ELSE "no"
      [] x.kind = "str" -> IF Contains(x.v, key) THEN "yes" ELSE "no"
      [] OTHER -> "TypeError"

\* Python's iteration over x: the elements of a list, the keys of a dict;
\* the characters of a str are one-character strings, none of which
\* contains "$Type", so the loop of lines 93-95 passes over them
PyIter(x) ==
    CASE x.kind = "list" -> x.v
      [] x.kind = "obj" -> [i \in DOMAIN x.v |-> JStr(x.v[i].k)]
      [] OTHER -> <<>>
PyIterable(x) == x.kind \in {"list", "obj", "str"}

\* hash(): lists and dicts are unhashable
Hashable(x) == x.kind \in {"str", "num"}

----------------------------------------------------------------------------
(* Lines 91-100: the component types a decoded payload appends, and whether *)
(* an exception cut the scan short (what was appended before stays).       *)

RECURSIVE ScanComponents(_, _)
ScanComponents(items, acc) ==
    IF items = <<>> THEN [out |-> acc, err |-> FALSE]
    ELSE LET c == Head(items)
             t == PyIn("$Type", c)
         IN  IF t = "TypeError" THEN [out |-> acc, err |-> TRUE]
             ELSE IF t = "no" THEN ScanComponents(Tail(items), acc)
             ELSE IF c.kind # "obj" THEN [out |-> acc, err |-> TRUE]
             ELSE ScanComponents(Tail(items), Append(acc, Get(c, "$Type")))

\* lines 91-95
ComponentsBlock(screen_data) ==
    LET p == PyIn("Properties", screen_data)
    IN  IF p = "TypeError" THEN [out |-> <<>>, err |-> TRUE]
        ELSE IF p = "no" THEN [out |-> <<>>, err |-> FALSE]
        ELSE IF screen_data.kind # "obj" THEN [out |-> <<>>, err |-> TRUE]
        ELSE LET props == Get(screen_data, "Properties")
                 q == PyIn("$Components", props)
             IN  IF q = "TypeError" THEN [out |-> <<>>, err |-> TRUE]
                 ELSE IF q = "no" THEN [out |-> <<>>, err |-> FALSE]
                 ELSE IF props.kind # "obj" THEN [out |-> <<>>, err |-> TRUE]
                 ELSE LET components == Get(props, "$Components")
                      IN  IF ~PyIterable(components)
                          THEN [out |-> <<>>, err |-> TRUE]
                          ELSE ScanComponents(PyIter(components), <<>>)

RECURSIVE ScanDirect(_, _)
ScanDirect(pairs, acc) ==
    IF pairs = <<>> THEN acc
    ELSE LET value == Head(pairs).v
         IN  IF value.kind = "obj" /\ "$Type" \in Keys(value)
             THEN ScanDirect(Tail(pairs), Append(acc, Get(value, "$Type")))
             ELSE ScanDirect(Tail(pairs), acc)

\* lines 97-100 (reached only when lines 91-95 raised nothing; then
\* screen_data is a dict or "Properties" is not in it)
DirectBlock(screen_data) ==
    IF PyIn("Properties", screen_data) # "yes" THEN [out |-> <<>>, err |-> FALSE]
    ELSE IF screen_data.kind # "obj" THEN [out |-> <<>>, err |-> TRUE]
    ELSE LET props == Get(screen_data, "Properties")
         IN  IF props.kind # "obj" THEN [out |-> <<>>, err |-> TRUE]
             ELSE [out |-> ScanDirect(props.v, <<>>), err |-> FALSE]

\* lines 88-100
ParseScreenData(screen_data) ==
    LET a == ComponentsBlock(screen_data)
    IN  IF a.err THEN a
        ELSE LET b == DirectBlock(screen_data)
             IN  [out |-> a.out \o b.out, err |-> b.err]

----------------------------------------------------------------------------
(* Iteration order of a Python set: by hash slot, which for str depends on *)
(* the process's hash seed. The same set lists in the same order within    *)
(* one process and may list in another order in another process.           *)

BaseHash(x) ==
    CASE x = JStr("Button") -> 1
      [] x = JStr("Label") -> 2
      [] x = JStr("Notifier") -> 3
      [] x = JStr("ImagePicker") -> 4
      [] x = JStr("Slider") -> 5
      [] x = JStr("Form") -> 6
      [] x.kind = "num" -> 7
      [] OTHER -> 8

\* a toy seeded hash: for each seed a different permutation of the values
Slot(x, seed) == (BaseHash(x) * (3 * seed + 1)) % 11

RECURSIVE SetOrder(_, _)
SetOrder(S, seed) ==
    IF S = {} THEN <<>>
    ELSE LET x == CHOOSE x \in S : \A y \in S : Slot(x, seed) <= Slot(y, seed)
         IN  <<x>> \o SetOrder(S \ {x}, seed)

Range(seq) == {seq[i] : i \in DOMAIN seq}

----------------------------------------------------------------------------
(* Lines 104-114: the line-scan fallback. A line is the sequence of its     *)
(* whitespace-separated tokens (line.split()); "component" and "type"       *)
(* contain no whitespace, so they occur in line.lower() iff they occur in  *)
(* the lower-cased text of one token.                                      *)

Lower(tok) ==
    CASE tok = "Component" -> "component"
      [] tok = "Type" -> "type"
      [] tok = "TYPE" -> "type"
      [] tok = "\"Slider\"" -> "\"slider\""
      [] tok = "(Label)" -> "(label)"
      [] tok = "Button" -> "button"
      [] OTHER -> tok

\* lower-cased tokens of the model that contain the needle
TokenContains(low, needle) ==
    \/ low = needle
    \/ needle = "component" /\ low \in {"components", "component-type"}
    \/ needle = "type" /\ low \in {"component-type", "subtype"}

\* str.strip("\"',()[]")
StripPunct(tok) ==
    CASE tok = "\"Slider\"" -> "Slider"
      [] tok = "(Label)" -> "Label"
      [] tok = "'Button'," -> "Button"
      [] OTHER -> tok

LineMatches(line) ==
    /\ \E i \in DOMAIN line : TokenContains(Lower(line[i]), "component")
    /\ \E i \in DOMAIN line : TokenContains(Lower(line[i]), "type")

\* lines 108-112 for one line
LineTypes(parts) ==
    {JStr(StripPunct(parts[i + 1])) :
        i \in {j \in DOMAIN parts : Lower(parts[j]) = "type" /\ j + 1 <= Len(parts)}}

\* lines 104-114: what the fallback appends
FallbackComponents(lines, seed) ==
    SetOrder(UNION {LineTypes(lines[n]) : n \in {m \in DOMAIN lines : LineMatches(lines[m])}},
             seed)

----------------------------------------------------------------------------
(* A screen's .scm file: whether it exists, whether the start marker is    *)
(* found (lines 73-75), whether an end marker is found after it (line 77), *)
(* what json.loads makes of the text between them (lines 80-88), and the   *)
(* file's lines as the fallback reads them.                                *)

Undecodable == [kind |-> "undecodable", v |-> 0]

ScmFile(start, end, payload, lines) ==
    [exists |-> TRUE, start |-> start, end |-> end, payload |-> payload,
     lines |-> lines]
NoScm == [exists |-> FALSE, start |-> FALSE, end |-> FALSE,
          payload |-> Undecodable, lines |-> <<>>]

\* lines 67-117: what the screen's .scm appends to project_info["components"]
ScmComponents(scm, seed) ==
    IF ~scm.exists THEN <<>>
    ELSE IF ~(scm.start /\ scm.end) THEN <<>>
    ELSE IF scm.payload.kind = "undecodable"
         THEN FallbackComponents(scm.lines, seed)
         ELSE ParseScreenData(scm.payload).out

----------------------------------------------------------------------------
(* A screen's .bky file: whether it exists and which of the known literals *)
(* occur in its text.                                                      *)

KnownLiterals == {"Notifier", "ImagePicker"}

BkyFile(refs) == [exists |-> TRUE, refs |-> refs]
NoBky == [exists |-> FALSE, refs |-> {}]

InComponents(name, components) == \E i \in DOMAIN components : components[i] = JStr(name)

\* lines 123-132: referenced_components
ReferencedComponents(bky, components) ==
    {L \in KnownLiterals : L \in bky.refs /\ ~InComponents(L, components)}

\* lines 136-142: the entries appended for one directory, in the set's order
MissingEntries(bky, components, dir_name, seed) ==
    LET refs == SetOrder({JStr(L) : L \in ReferencedComponents(bky, components)}, seed)
        kept == SelectSeq(refs, LAMBDA r : ~InComponents(r.v, components))
    IN  [i \in DOMAIN kept |-> [component |-> kept[i].v, screen |-> dir_name]]

----------------------------------------------------------------------------
(* project.properties: a text is the sequence of its characters ("LF" is   *)
(* the line feed); lines 45-49 read it line by line.                       *)

Whitespace == {" ", "LF"}

StartsWith(line, prefix) ==
    Len(line) >= Len(prefix) /\ SubSeq(line, 1, Len(prefix)) = prefix

\* line.split("=", 1)[1], for a line that holds an "="
AfterFirstEquals(line) ==
    LET i == CHOOSE i \in DOMAIN line :
                 line[i] = "=" /\ \A j \in 1..(i - 1) : line[j] # "="
    IN  SubSeq(line, i + 1, Len(line))

RECURSIVE LStrip(_)
LStrip(text) ==
    IF text # <<>> /\ Head(text) \in Whitespace THEN LStrip(Tail(text)) ELSE text

RECURSIVE RStrip(_)
RStrip(text) ==
    IF text # <<>> /\ text[Len(text)] \in Whitespace
    THEN RStrip(SubSeq(text, 1, Len(text) - 1)) ELSE text

\* str.strip()
Strip(text) == RStrip(LStrip(text))

\* the value without .strip()
LineValueUnstripped(line) == AfterFirstEquals(line)

\* line.split("=", 1)[1].strip()
LineValue(line) == Strip(AfterFirstEquals(line))

NamePrefix == <<"n", "a", "m", "e", "=">>
MainPrefix == <<"m", "a", "i", "n", "=">>

\* lines 45-49: the loop over the manifest's lines
RECURSIVE ReadManifest(_, _)
ReadManifest(lines, info) ==
    IF lines = <<>> THEN info
    ELSE LET line == Head(lines)
         IN  IF StartsWith(line, NamePrefix)
             THEN ReadManifest(Tail(lines), [info EXCEPT !.projectName = LineValue(line)])
             ELSE IF StartsWith(line, MainPrefix)
             THEN ReadManifest(Tail(lines), [info EXCEPT !.version = LineValue(line)])
             ELSE ReadManifest(Tail(lines), info)

----------------------------------------------------------------------------
(* The archive. A ZIP's members are the manifest, the src/ directory entry *)
(* and the directories below src/ with their files, in the order os.walk   *)
(* yields them. zip is "ok", "notzip" (no ZIP file at all) or "badcrc"     *)
(* (a ZIP whose member number corruptAt fails its CRC check).              *)

Manifest(lines) == [exists |-> TRUE, lines |-> lines]
NoManifest == [exists |-> FALSE, lines |-> <<>>]

Dir(name, scm, bky) == [name |-> name, scm |-> scm, bky |-> bky]

ManifestMember == [m |-> "manifest", i |-> 0]
SrcMember == [m |-> "src", i |-> 0]
DirMember(n) == [m |-> "dir", i |-> n]

\* the members in archive order
Members(a) ==
    (IF a.manifest.exists THEN <<ManifestMember>> ELSE <<>>)
    \o (IF a.hasSrc THEN <<SrcMember>> ELSE <<>>)
    \o [n \in 1..Len(a.dirs) |-> DirMember(n)]

\* dir_name.startswith("Screen") on the directory names of the model
IsScreenName(name) == name \in {"Screen1", "Screen2", "Screenshots"}

----------------------------------------------------------------------------
(* Lines 21-28 *)

NewProjectInfo(basename) ==
    [projectName |-> <<>>, components |-> <<>>, screens |-> <<>>,
     version |-> <<>>, filename |-> basename, missing_components |-> <<>>]

Running == [kind |-> "running", error |-> "", message |-> "", file |-> ""]
Returned == [kind |-> "returned", error |-> "", message |-> "", file |-> ""]
Raised(error, message, file) ==
    [kind |-> "raised", error |-> error, message |-> message, file |-> file]

NoExtractDir == [exists |-> FALSE, files |-> {}]

\* no request is being served
Idle == [route |-> "none", step |-> "idle", temp_dir |-> 0, upload_temp_dir |-> 0,
         fromUpload |-> FALSE, badName |-> FALSE, source |-> "none"]
\* the client holds no /upload response
NoUpload == [uploaded |-> FALSE, filename |-> ""]

----------------------------------------------------------------------------
(* The steps of process_aia_file *)

\* lines 30-39: makedirs, ZipFile, extractall
ExtractedMembers(a) ==
    CASE a.zip = "notzip" -> {}
      [] a.zip = "badcrc" -> {Members(a)[n] : n \in 1..a.corruptAt}
      [] OTHER -> Range(Members(a))

Extract ==
    /\ pc = "extract"
    /\ extract_dir' = [exists |-> TRUE, files |-> ExtractedMembers(archive)]
    /\ IF archive.zip = "ok"
       THEN pc' = "manifest" /\ UNCHANGED outcome
       ELSE /\ pc' = "done"
            /\ outcome' = Raised("ValueError", "is not a valid AIA (ZIP) file", filename)
    /\ UNCHANGED <<filename, archive, hashSeed, project_info, walked, history>>
    /\ UNCHANGED appvars

\* lines 41-51
ParseManifest ==
    /\ pc = "manifest"
    /\ IF ManifestMember \in extract_dir.files
       THEN /\ project_info' = ReadManifest(archive.manifest.lines, project_info)
            /\ pc' = "src"
            /\ UNCHANGED outcome
       ELSE /\ pc' = "done"
            /\ outcome' = Raised("ValueError", "missing project.properties", "")
            /\ UNCHANGED project_info
    /\ UNCHANGED <<filename, archive, hashSeed, extract_dir, walked, history>>
    /\ UNCHANGED appvars

\* the src check left out
SrcNotChecked == TRUE

\* lines 53-56
SrcExists == \E f \in extract_dir.files : f.m \in {"src", "dir"}

CheckSrc ==
    /\ pc = "src"
    /\ IF SrcExists
       THEN pc' = "walk" /\ UNCHANGED outcome
       ELSE /\ pc' = "done"
            /\ outcome' = Raised("ValueError", "missing src directory", "")
    /\ UNCHANGED <<filename, archive, hashSeed, extract_dir, project_info, walked, history>>
    /\ UNCHANGED appvars

\* lines 60-144: the loop body for one directory
VisitInfo(info, dir, seed) ==
    IF ~IsScreenName(dir.name) THEN info
    ELSE LET components == info.components \o ScmComponents(dir.scm, seed)
             missing == IF dir.bky.exists
                        THEN MissingEntries(dir.bky, components, dir.name, seed)
                        ELSE <<>>
         IN  [info EXCEPT !.screens = Append(@, dir.name),
                          !.components = components,
                          !.missing_components = @ \o missing]

WalkDir ==
    /\ pc = "walk"
    /\ walked < Len(archive.dirs)
    /\ DirMember(walked + 1) \in extract_dir.files
    /\ walked' = walked + 1
    /\ project_info' = VisitInfo(project_info, archive.dirs[walked + 1], hashSeed)
    /\ UNCHANGED <<filename, archive, hashSeed, pc, extract_dir, outcome, history>>
    /\ UNCHANGED appvars

\* lines 162-169 and 171-178: append {component, "Screen2"} unless present
AddMissing(missing, component) ==
    IF \E i \in DOMAIN missing :
           missing[i].component = component /\ missing[i].screen = "Screen2"
    THEN missing
    ELSE Append(missing, [component |-> component, screen |-> "Screen2"])

\* lines 146-178
SpecialInfo(info, basename) ==
    IF basename = "AITrainerComplete.aia" /\ "Screen2" \in Range(info.screens)
    THEN LET has_image_picker == InComponents("ImagePicker", info.components)
             has_notifier == InComponents("Notifier", info.components)
             m1 == IF has_image_picker THEN info.missing_components
                   ELSE AddMissing(info.missing_components, "ImagePicker")
             m2 == IF has_notifier THEN m1 ELSE AddMissing(m1, "Notifier")
         IN  [info EXCEPT !.missing_components = m2]
    ELSE info

SpecialCase ==
    /\ pc = "walk"
    /\ walked = Len(archive.dirs)
    /\ project_info' = SpecialInfo(project_info, filename)
    /\ pc' = "dedup"
    /\ UNCHANGED <<filename, archive, hashSeed, extract_dir, walked, outcome, history>>
    /\ UNCHANGED appvars

\* line 181: list(set(components))
DedupComponents(components, seed) == SetOrder(Range(components), seed)

\* lines 180-183
Dedup ==
    /\ pc = "dedup"
    /\ pc' = "done"
    /\ IF \A i \in DOMAIN project_info.components : Hashable(project_info.components[i])
       THEN /\ project_info' = [project_info EXCEPT
                                   !.components = DedupComponents(@, hashSeed)]
            /\ outcome' = Returned
       ELSE /\ outcome' = Raised("TypeError", "unhashable type", "")
            /\ UNCHANGED project_info
    /\ UNCHANGED <<filename, archive, hashSeed, extract_dir, walked, history>>
    /\ UNCHANGED appvars

----------------------------------------------------------------------------
(* Calling the function again on the same archive with a fresh temp_dir:   *)
(* in the same interpreter process, or after the process was restarted     *)
(* (another hash seed).                                                    *)

HashSeeds == 0..(NumSeeds - 1)

Recorded == [outcome |-> outcome, result |-> project_info, files |-> extract_dir.files]

CallAgain ==
    /\ pc = "done"
    /\ Len(history) + 1 < MaxRuns
    /\ history' = Append(history, Recorded)
    /\ pc' = "extract"
    /\ project_info' = NewProjectInfo(filename)
    /\ extract_dir' = NoExtractDir
    /\ walked' = 0
    /\ outcome' = Running
    /\ UNCHANGED <<filename, archive, hashSeed>>
    /\ UNCHANGED appvars

RestartAndCall ==
    /\ pc = "done"
    /\ Len(history) + 1 < MaxRuns
    /\ \E s \in HashSeeds \ {hashSeed} : hashSeed' = s
    /\ history' = Append(history, Recorded)
    /\ pc' = "extract"
    /\ project_info' = NewProjectInfo(filename)
    /\ extract_dir' = NoExtractDir
    /\ walked' = 0
    /\ outcome' = Running
    /\ UNCHANGED <<filename, archive>>
    /\ UNCHANGED appvars

Next ==
    \/ Extract
    \/ ParseManifest
    \/ CheckSrc
    \/ WalkDir
    \/ SpecialCase
    \/ Dedup
    \/ CallAgain
    \/ RestartAndCall

----------------------------------------------------------------------------
(* The inputs the model draws from *)

TypeObj(t) == JObj(<<KV("$Type", t)>>)
Payload(props) == JObj(<<KV("Source", JStr("Form")), KV("Properties", JObj(props))>>)

\* {"Properties": {"$Name": "Screen1", "$Type": "Form",
\*                 "$Components": [{"$Type": "Button"}, {"$Type": "Notifier"}]}}
ScmButtonNotifier ==
    ScmFile(TRUE, TRUE,
            Payload(<<KV("$Name", JStr("Screen1")), KV("$Type", JStr("Form")),
                      KV("$Components", JList(<<TypeObj(JStr("Button")),
                                                TypeObj(JStr("Notifier"))>>))>>),
            <<>>)
\* a component without $Type, a repeated type, and a direct object value
ScmPickerLabel ==
    ScmFile(TRUE, TRUE,
            Payload(<<KV("$Type", JStr("Form")),
                      KV("$Components", JList(<<JObj(<<KV("$Name", JStr("x"))>>),
                                                TypeObj(JStr("ImagePicker")),
                                                TypeObj(JStr("ImagePicker"))>>)),
                      KV("Child", TypeObj(JStr("Label")))>>),
            <<>>)
\* {"Properties": {"$Components": [{"$Type": "Label"}, 1]}}
ScmBadElement ==
    ScmFile(TRUE, TRUE,
            Payload(<<KV("$Components", JList(<<TypeObj(JStr("Label")), JNum(1)>>))>>),
            <<>>)
\* {"Properties": {"$Components": [{"$Type": ["x"]}]}}
ScmListType ==
    ScmFile(TRUE, TRUE,
            Payload(<<KV("$Components", JList(<<TypeObj(JList(<<JStr("x")>>))>>))>>),
            <<>>)
\* {"Properties": 5}
ScmNumProperties ==
    ScmFile(TRUE, TRUE, JObj(<<KV("Properties", JNum(5))>>), <<>>)

FallbackLines ==
    << <<"#|">>, <<"$JSON">>,
       <<"component", "type", "\"Slider\"">>,
       <<"Component", "TYPE", "(Label)">>,
       <<"type", "Button">>,
       <<"|#">> >>
\* both markers, a block json.loads rejects
ScmUndecodable == ScmFile(TRUE, TRUE, Undecodable, FallbackLines)
\* the start marker and no end marker after it: the file ends before "|#"
ScmTruncated ==
    ScmFile(TRUE, FALSE, Undecodable, SubSeq(FallbackLines, 1, Len(FallbackLines) - 1))
\* no start marker: the file holds neither "#|" nor "$JSON", nor "|#"
ScmNoMarker ==
    ScmFile(FALSE, FALSE, Undecodable, SubSeq(FallbackLines, 3, Len(FallbackLines) - 1))

ScmFiles ==
    {NoScm, ScmButtonNotifier, ScmPickerLabel, ScmBadElement, ScmListType,
     ScmNumProperties, ScmUndecodable, ScmTruncated, ScmNoMarker}

BkyFiles == {NoBky} \cup {BkyFile(R) : R \in SUBSET KnownLiterals}

ScreenNames == {"Screen1", "Screen2"}

Dirs ==
    {Dir(n, scm, bky) : n \in ScreenNames, scm \in ScmFiles, bky \in BkyFiles}
    \cup {Dir("assets", NoScm, NoBky)}

SeqsUpTo(S, n) == UNION {[1..k -> S] : k \in 0..n}

\* "name=Foo\n", "name= A=B \n", "main=a.b\n", " name=Zed\n", "Name=Q\n",
\* "name=\n", "main=x"
ManifestLines ==
    { <<"n", "a", "m", "e", "=", "F", "o", "o", "LF">>,
      <<"n", "a", "m", "e", "=", " ", "A", "=", "B", " ", "LF">>,
      <<"m", "a", "i", "n", "=", "a", ".", "b", "LF">>,
      <<" ", "n", "a", "m", "e", "=", "Z", "e", "d", "LF">>,
      <<"N", "a", "m", "e", "=", "Q", "LF">>,
      <<"n", "a", "m", "e", "=", "LF">>,
      <<"m", "a", "i", "n", "=", "x">> }

StandardManifest ==
    Manifest(<< <<"m", "a", "i", "n", "=", "a", ".", "b", "LF">>,
                <<"n", "a", "m", "e", "=", "F", "o", "o", "LF">> >>)

FileNames == {"AITrainerComplete.aia", "Project.aia"}

Archive(zip, manifest, hasSrc, dirs, corruptAt) ==
    [zip |-> zip, manifest |-> manifest, hasSrc |-> hasSrc, dirs |-> dirs,
     corruptAt |-> corruptAt]

\* well-formed ZIPs with the manifest and src/
ValidArchives(manifests, dirSeqs) ==
    {Archive("ok", m, TRUE, d, 0) : m \in manifests, d \in dirSeqs}

\* what lines 34-56 reject: no ZIP; a ZIP with a member that fails its CRC;
\* no manifest; no src/
RejectedArchives(dirSeqs) ==
    {Archive("notzip", NoManifest, FALSE, <<>>, 0)}
    \cup {a \in {Archive("badcrc", StandardManifest, TRUE, d, k) :
                    d \in dirSeqs, k \in 1..(MaxDirs + 2)} :
            a.corruptAt <= Len(Members(a))}
    \cup {Archive("ok", NoManifest, TRUE, d, 0) : d \in dirSeqs}
    \cup {Archive("ok", m, FALSE, <<>>, 0) : m \in {NoManifest, StandardManifest}}

InitWith(archives) ==
    /\ filename \in FileNames
    /\ archive \in archives
    /\ hashSeed \in HashSeeds
    /\ pc = "extract"
    /\ extract_dir = NoExtractDir
    /\ project_info = NewProjectInfo(filename)
    /\ walked = 0
    /\ outcome = Running
    /\ history = <<>>
    /\ tmpdirs = {}
    /\ made = 0
    /\ handler = Idle
    /\ client = NoUpload
    /\ log = <<>>

\* every tree of up to MaxDirs directories under the standard manifest, and
\* the rejected archives with at most one directory
Init ==
    InitWith(ValidArchives({StandardManifest}, SeqsUpTo(Dirs, MaxDirs))
             \cup RejectedArchives(SeqsUpTo(Dirs, 1)))

Spec == Init /\ [][Next]_vars

\* every manifest of up to MaxManifestLines lines over a few trees
ManifestDirs ==
    {Dir("Screen1", ScmButtonNotifier, BkyFile({"Notifier", "ImagePicker"})),
     Dir("assets", NoScm, NoBky)}

InitManifest ==
    InitWith(ValidArchives({Manifest(l) : l \in SeqsUpTo(ManifestLines, MaxManifestLines)},
                           SeqsUpTo(ManifestDirs, 1))
             \cup RejectedArchives(SeqsUpTo(ManifestDirs, 1)))

SpecManifest == InitManifest /\ [][Next]_vars

----------------------------------------------------------------------------
(* What the properties below speak of *)

\* the component types a screen's own .scm file declares
Declared(scm) == Range(ScmComponents(scm, 0))

ReturnedResult == pc = "done" /\ outcome.kind = "returned"

ScreenDirs == {n \in DOMAIN archive.dirs : IsScreenName(archive.dirs[n].name)}

MissingSet == Range(project_info.missing_components)

NoDuplicates(seq) == \A i, j \in DOMAIN seq : seq[i] = seq[j] => i = j

ValidArchive == archive.zip = "ok" /\ archive.manifest.exists /\ archive.hasSrc

\* the screen's .scm is one whose parsing raises, or that declares a type
\* that is no string
ScmCorrupted(scm) ==
    /\ scm.exists /\ scm.start /\ scm.end
    /\ scm.payload.kind # "undecodable"
    /\ \/ ParseScreenData(scm.payload).err
       \/ \E t \in Declared(scm) : t.kind # "str"

----------------------------------------------------------------------------
(* C1: in a returned result, every known literal that occurs in a screen's *)
(* .bky and is not declared by that screen's own .scm has its entry        *)
(* {component, screen} in missing_components, whatever the other screens   *)
(* declare and whatever the traversal order.                               *)
C1_PerScreenDetection ==
    ReturnedResult =>
        \A n \in ScreenDirs : \A L \in KnownLiterals :
            LET d == archive.dirs[n]
            IN  (d.bky.exists /\ L \in d.bky.refs /\ JStr(L) \notin Declared(d.scm))
                    => [component |-> L, screen |-> d.name] \in MissingSet

(* C2: in a returned result, no entry {c, s} of missing_components names a *)
(* component type that the .scm of a directory named s declares.           *)
C2_Consistency ==
    ReturnedResult =>
        \A e \in MissingSet : \A n \in ScreenDirs :
            archive.dirs[n].name = e.screen
                => JStr(e.component) \notin Declared(archive.dirs[n].scm)

(* C3: in a returned result, components holds no value twice and           *)
(* missing_components holds no (component, screen) pair twice.             *)
C3_Dedup ==
    ReturnedResult =>
        /\ NoDuplicates(project_info.components)
        /\ NoDuplicates(project_info.missing_components)

(* C4: on a valid ZIP with manifest and src/ the call returns, whatever    *)
(* one screen's .scm holds; a corrupted screen contributes no component    *)
(* (each of its types in the result is declared by another directory),     *)
(* and what the other screens declare is all in the result.                *)
C4_PartialFailureIsolation ==
    (pc = "done" /\ ValidArchive) =>
        /\ outcome.kind = "returned"
        /\ \A n \in ScreenDirs :
              LET scm == archive.dirs[n].scm
              IN  IF ScmCorrupted(scm)
                  THEN \A t \in Declared(scm) :
                          t \in Range(project_info.components)
                              => \E m \in ScreenDirs \ {n} :
                                    t \in Declared(archive.dirs[m].scm)
                  ELSE Declared(scm) \subseteq Range(project_info.components)

(* C5: a file that is no ZIP, a ZIP without the manifest and a ZIP with    *)
(* the manifest and without src/ each end in a ValueError, checked in that *)
(* order, and no directory is visited unless all three checks passed.      *)
C5_FatalPaths ==
    /\ (pc = "done" /\ archive.zip # "ok")
          => /\ outcome = Raised("ValueError", "is not a valid AIA (ZIP) file", filename)
             /\ project_info = NewProjectInfo(filename)
    /\ (pc = "done" /\ archive.zip = "ok" /\ ~archive.manifest.exists)
          => /\ outcome = Raised("ValueError", "missing project.properties", "")
             /\ project_info = NewProjectInfo(filename)
    /\ (pc = "done" /\ archive.zip = "ok" /\ archive.manifest.exists /\ ~archive.hasSrc)
          => /\ outcome = Raised("ValueError", "missing src directory", "")
             /\ project_info.screens = <<>>
    /\ (walked > 0 \/ project_info.screens # <<>> \/ pc \in {"walk", "dedup"})
          => ValidArchive

\* a manifest was read, src/ is missing and the call raised
C5_Witness ==
    /\ pc = "done"
    /\ archive.manifest.exists /\ ~archive.hasSrc
    /\ project_info.projectName # <<>>
    /\ outcome.kind = "raised"

(* C6: a returned result has a non-empty screens list.                     *)
C6_ScreensNonEmpty == ReturnedResult => project_info.screens # <<>>

(* C7: whatever the archive's file name, every entry of a returned         *)
(* missing_components names a known literal that occurs in the .bky of a   *)
(* directory with the entry's screen name.                                 *)
C7_EntriesReferenced ==
    ReturnedResult =>
        \A e \in MissingSet :
            /\ e.component \in KnownLiterals
            /\ \E n \in ScreenDirs :
                  LET d == archive.dirs[n]
                  IN  d.name = e.screen /\ d.bky.exists /\ e.component \in d.bky.refs

(* C8: a second call on the same archive ends as the first did and, when   *)
(* it returns, returns the same project_info, element order included.      *)
C8_Idempotence ==
    (pc = "done" /\ history # <<>>) =>
        \A i \in DOMAIN history :
            /\ history[i].outcome = outcome
            /\ outcome.kind = "returned" => history[i].result = project_info

(* C9: when the call raises the not-a-valid-archive error, nothing has     *)
(* been written under the extraction directory; when extraction raised     *)
(* nothing, every member of the archive is there.                          *)
C9_AllOrNothing ==
    /\ (pc = "done" /\ outcome.message = "is not a valid AIA (ZIP) file")
          => (outcome.file = filename /\ extract_dir.files = {})
    /\ (pc \notin {"extract"} /\ outcome.message # "is not a valid AIA (ZIP) file")
          => extract_dir.files = Range(Members(archive))

----------------------------------------------------------------------------
(* C10 *)

\* what Python gives for line.split("=", 1)[1].strip() on the manifest
\* lines of the model
ExpectedValue(line) ==
    CASE line = <<"n", "a", "m", "e", "=", "F", "o", "o", "LF">> -> <<"F", "o", "o">>
      [] line = <<"n", "a", "m", "e", "=", " ", "A", "=", "B", " ", "LF">> -> <<"A", "=", "B">>
      [] line = <<"m", "a", "i", "n", "=", "a", ".", "b", "LF">> -> <<"a", ".", "b">>
      [] line = <<"n", "a", "m", "e", "=", "LF">> -> <<>>
      [] line = <<"m", "a", "i", "n", "=", "x">> -> <<"x">>

\* the value of the last line that starts with the key, "" when none does
ExpectedField(lines, key) ==
    LET hits == {i \in DOMAIN lines : StartsWith(lines[i], key)}
    IN  IF hits = {} THEN <<>>
        ELSE ExpectedValue(lines[CHOOSE i \in hits : \A j \in hits : j <= i])

(* C10: once the manifest is read, projectName is the value of its name=   *)
(* line and version the value of its main= line, the empty string for a    *)
(* key the manifest lacks, and a manifest that lacks keys does not make    *)
(* the call raise: the call goes on to the src check and the walk.         *)
C10_ManifestParsing ==
    /\ (pc \in {"src", "walk", "dedup"} \/ ReturnedResult)
          => /\ project_info.projectName
                    = ExpectedField(archive.manifest.lines, NamePrefix)
             /\ project_info.version
                    = ExpectedField(archive.manifest.lines, MainPrefix)
    /\ (pc = "done" /\ ValidArchive /\ outcome.kind = "raised")
          => outcome.error = "TypeError"

\* a manifest with a main= line and no name= line, and the walk under way
C10_Witness ==
    /\ pc = "walk" /\ walked > 0
    /\ archive.manifest.lines # <<>>
    /\ \A i \in DOMAIN archive.manifest.lines :
          ~StartsWith(archive.manifest.lines[i], NamePrefix)
    /\ project_info.projectName = <<>>
    /\ project_info.version # <<>>

----------------------------------------------------------------------------
(* Layout descriptors of further shapes, and the specification that walks  *)
(* every tree of up to MaxDirs directories over all the .scm files.        *)

\* {"Properties": {"$Components": [{"$Type": "Label"}, 1],
\*                 "Child": {"$Type": "Button"}}}
ScmBadElementChild ==
    ScmFile(TRUE, TRUE,
            Payload(<<KV("$Components", JList(<<TypeObj(JStr("Label")), JNum(1)>>)),
                      KV("Child", TypeObj(JStr("Button")))>>),
            <<>>)
\* {"Properties": {"$Components": {"$Type": "Slider"}}}
ScmDictComponents ==
    ScmFile(TRUE, TRUE, Payload(<<KV("$Components", TypeObj(JStr("Slider")))>>), <<>>)

ScmDirs ==
    {Dir(n, scm, BkyFile({"Notifier"})) :
        n \in ScreenNames, scm \in ScmFiles \cup {ScmBadElementChild, ScmDictComponents}}
    \cup {Dir("assets", NoScm, NoBky)}

InitScm ==
    InitWith(ValidArchives({StandardManifest}, SeqsUpTo(ScmDirs, MaxDirs))
             \cup RejectedArchives(SeqsUpTo(ScmDirs, 1)))

SpecScm == InitScm /\ [][Next]_vars

\* the first directory walked is a screen; what project_info["components"]
\* holds then is what that screen contributed
FirstScreenWalked ==
    /\ pc = "walk" /\ walked = 1
    /\ IsScreenName(archive.dirs[1].name)

FirstScm == archive.dirs[1].scm

\* the embedded payload is found and json.loads decodes it
Decodes(scm) ==
    scm.exists /\ scm.start /\ scm.end /\ scm.payload.kind # "undecodable"

HasType(x) == x.kind = "obj" /\ "$Type" \in Keys(x)

\* the $Type of every object of Properties.$Components that has one, and of
\* every direct value of Properties that is an object with a $Type
ClaimedTypes(payload) ==
    IF payload.kind = "obj" /\ "Properties" \in Keys(payload)
       /\ Get(payload, "Properties").kind = "obj"
    THEN LET props == Get(payload, "Properties")
             listed == IF "$Components" \in Keys(props)
                          /\ Get(props, "$Components").kind = "list"
                       THEN Range(Get(props, "$Components").v)
                       ELSE {}
             direct == {props.v[i].v : i \in DOMAIN props.v}
         IN  {Get(c, "$Type") : c \in {x \in listed \cup direct : HasType(x)}}
    ELSE {}

(* C11: a screen whose payload decodes contributes exactly the $Type of    *)
(* every object of Properties.$Components that has a $Type and the $Type   *)
(* of every direct value of Properties that is an object with a $Type.     *)
C11_DecodedContribution ==
    (FirstScreenWalked /\ Decodes(FirstScm))
        => Range(project_info.components) = ClaimedTypes(FirstScm.payload)

(* C12: a screen whose .scm has the start marker and a block that cannot   *)
(* be decoded (malformed, or cut off before the end marker) contributes    *)
(* the tokens the line scan finds; a screen whose .scm has no start        *)
(* marker contributes nothing.                                             *)
C12_HeuristicFallback ==
    (FirstScreenWalked /\ FirstScm.exists) =>
        IF ~FirstScm.start
        THEN project_info.components = <<>>
        ELSE ~Decodes(FirstScm)
                => Range(project_info.components)
                      = Range(FallbackComponents(FirstScm.lines, hashSeed))

\* the names of the screen directories in traversal order, each at its
\* first occurrence only
RECURSIVE FirstOccurrences(_, _)
FirstOccurrences(dirs, seen) ==
    IF dirs = <<>> THEN seen
    ELSE LET name == Head(dirs).name
         IN  IF IsScreenName(name) /\ name \notin Range(seen)
             THEN FirstOccurrences(Tail(dirs), Append(seen, name))
             ELSE FirstOccurrences(Tail(dirs), seen)

(* C13: the returned screens list holds each screen identifier once, in    *)
(* directory-traversal order, also when two directories share a name.      *)
C13_ScreensUnique ==
    ReturnedResult =>
        /\ NoDuplicates(project_info.screens)
        /\ project_info.screens = FirstOccurrences(archive.dirs, <<>>)

-----------------------------------------------------------------------------
(* The request handlers of src/app.py.  One request is served at a time; the
   calls /upload and /project-info make to process_aia_file run the steps
   above. *)

\* the names the client gives the uploaded file
UploadNames == {"Project.aia", "my app.aia", "notes.txt", ""}

\* allowed_file: the text after the last "." is "aia", in any case
AllowedFile(name) == name \in {"Project.aia", "my app.aia"}

\* werkzeug's secure_filename on the names of the model
SecureFilename(name) == IF name = "my app.aia" THEN "my_app.aia" ELSE name

\* tempfile.mkdtemp: a new, empty directory no earlier one shares its name with
NewDir(id, route, files) == [id |-> id, by |-> route, req |-> Len(log) + 1, files |-> files]

File(name, content) == [name |-> name, content |-> content]

\* os.path.exists(os.path.join(dir, name))
PathExists(id, name) ==
    \E d \in tmpdirs : d.id = id /\ \E f \in d.files : f.name = name

\* what is stored at os.path.join(dir, name)
ContentAt(id, name) ==
    (CHOOSE f \in UNION {d.files : d \in {e \in tmpdirs : e.id = id}} : f.name = name).content

\* shutil.rmtree of the directories named
Removed(ids) == {d \in tmpdirs : d.id \notin ids}

Served(route, status, source, fromUpload) ==
    [route |-> route, status |-> status, source |-> source, fromUpload |-> fromUpload]

FileRoutes == {"upload", "project-info"}

\* the early returns of upload_file and get_project_info: no file part, an
\* empty file name, an extension other than .aia
RejectFile ==
    /\ handler = Idle
    /\ Len(log) < MaxRequests
    /\ \E route \in FileRoutes, hasFile \in BOOLEAN, name \in UploadNames :
          /\ ~hasFile \/ name = "" \/ ~AllowedFile(name)
          /\ log' = Append(log, Served(route, 400, "none", FALSE))
    /\ UNCHANGED <<filename, archive, hashSeed, pc, extract_dir, project_info, walked,
                   outcome, history, tmpdirs, made, handler, client>>

\* mkdtemp, file.save and the call of process_aia_file
SaveAndProcess(route) ==
    /\ \E name \in UploadNames :
          /\ name # ""
          /\ AllowedFile(name)
          /\ filename' = SecureFilename(name)
          /\ tmpdirs' = tmpdirs \cup
                {NewDir(made + 1, route, {File(SecureFilename(name), "uploaded")})}
          /\ project_info' = NewProjectInfo(SecureFilename(name))
    /\ made' = made + 1
    /\ handler' = [Idle EXCEPT !.route = route, !.step = "processing",
                               !.temp_dir = made + 1]
    /\ pc' = "extract"
    /\ extract_dir' = NoExtractDir
    /\ walked' = 0
    /\ outcome' = Running
    /\ UNCHANGED <<archive, hashSeed, history, client, log>>

\* the response of a file handler: 200 with project_info, 500 for an exception
FileStatus == IF outcome.kind = "returned" THEN 200 ELSE 500

UploadBegin ==
    /\ handler = Idle
    /\ Len(log) < MaxRequests
    /\ SaveAndProcess("upload")

\* upload_file after the call: the response; the finally clause is "pass"
UploadEnd ==
    /\ handler.route = "upload"
    /\ pc = "done"
    /\ log' = Append(log, Served("upload", FileStatus, "uploaded", FALSE))
    /\ client' = IF FileStatus = 200
                 THEN [uploaded |-> TRUE, filename |-> filename]
                 ELSE client
    /\ handler' = Idle
    /\ pc' = "idle"
    /\ UNCHANGED <<filename, archive, hashSeed, extract_dir, project_info, walked,
                   outcome, history, tmpdirs, made>>

ProjectInfoBegin ==
    /\ handler = Idle
    /\ Len(log) < MaxRequests
    /\ SaveAndProcess("project-info")

\* get_project_info after the call: the response; finally removes temp_dir
ProjectInfoEnd ==
    /\ handler.route = "project-info"
    /\ pc = "done"
    /\ log' = Append(log, Served("project-info", FileStatus, "uploaded", FALSE))
    /\ tmpdirs' = Removed({handler.temp_dir})
    /\ handler' = Idle
    /\ pc' = "idle"
    /\ UNCHANGED <<filename, archive, hashSeed, extract_dir, project_info, walked,
                   outcome, history, made, client>>

\* the file names a /compile request carries when it does not follow an upload
CompileNames == {"Project.aia", "test.aia"}

\* compile_project's early returns: no JSON body, no projectName, no filename
CompileReject ==
    /\ handler = Idle
    /\ Len(log) < MaxRequests
    /\ log' = Append(log, Served("compile", 400, "none", FALSE))
    /\ UNCHANGED <<filename, archive, hashSeed, pc, extract_dir, project_info, walked,
                   outcome, history, tmpdirs, made, handler, client>>

\* the archive compile_project hands to compile_mit_project: the file at
\* file_path if there is one, else the mock archive it writes there
CompileSource(id, name) ==
    IF PathExists(id, name) THEN ContentAt(id, name) ELSE "mock"

\* compile_project up to the call of compile_mit_project: two mkdtemp calls
\* and the archive at upload_temp_dir/filename.  fromUpload: the request
\* carries the project_info of the last successful /upload; badName: its
\* projectName names a path below the output directory
CompileBegin ==
    /\ handler = Idle
    /\ Len(log) < MaxRequests
    /\ \E fromUpload \in {b \in BOOLEAN : b => client.uploaded},
          badName \in BOOLEAN,
          other \in CompileNames :
          LET name == SecureFilename(IF fromUpload THEN client.filename ELSE other)
              source == CompileSource(made + 2, name)
          IN /\ tmpdirs' = tmpdirs \cup
                    {NewDir(made + 1, "compile", {}),
                     NewDir(made + 2, "compile",
                            {File(name, source)})}
             /\ handler' = [route |-> "compile", step |-> "compiling",
                            temp_dir |-> made + 1, upload_temp_dir |-> made + 2,
                            fromUpload |-> fromUpload, badName |-> badName,
                            source |-> source]
    /\ made' = made + 2
    /\ UNCHANGED <<filename, archive, hashSeed, pc, extract_dir, project_info, walked,
                   outcome, history, client, log>>

\* compile_mit_project: the archive is extracted into temp_dir/workspace and
\* the APK is written to temp_dir, which fails when the directory of
\* <projectName>.apk does not exist
CompileRun ==
    /\ handler.route = "compile"
    /\ handler.step = "compiling"
    /\ handler' = [handler EXCEPT !.step = IF handler.badName THEN "failed" ELSE "compiled"]
    /\ tmpdirs' = {IF d.id = handler.temp_dir
                   THEN [d EXCEPT !.files =
                            {File("workspace", handler.source)}
                            \cup (IF handler.badName THEN {} ELSE {File("apk", handler.source)})]
                   ELSE d : d \in tmpdirs}
    /\ UNCHANGED <<filename, archive, hashSeed, pc, extract_dir, project_info, walked,
                   outcome, history, made, client, log>>

\* the response of compile_project and its finally clause, which removes
\* temp_dir and upload_temp_dir
CompileEnd ==
    /\ handler.route = "compile"
    /\ handler.step \in {"compiled", "failed"}
    /\ log' = Append(log, Served("compile", IF handler.step = "compiled" THEN 200 ELSE 500,
                                 handler.source, handler.fromUpload))
    /\ tmpdirs' = Removed({handler.temp_dir, handler.upload_temp_dir})
    /\ handler' = Idle
    /\ UNCHANGED <<filename, archive, hashSeed, pc, extract_dir, project_info, walked,
                   outcome, history, made, client>>

NextApp ==
    \/ RejectFile
    \/ UploadBegin
    \/ UploadEnd
    \/ ProjectInfoBegin
    \/ ProjectInfoEnd
    \/ CompileReject
    \/ CompileBegin
    \/ CompileRun
    \/ CompileEnd
    \/ Extract
    \/ ParseManifest
    \/ CheckSrc
    \/ WalkDir
    \/ SpecialCase
    \/ Dedup

\* the archives the client uploads
AppDirs ==
    {Dir("Screen1", scm, BkyFile({"Notifier"})) : scm \in {ScmButtonNotifier, ScmListType}}

AppArchives ==
    ValidArchives({StandardManifest}, SeqsUpTo(AppDirs, 1))
    \cup {Archive("notzip", NoManifest, FALSE, <<>>, 0)}

\* the server has started and has served no request
InitApp ==
    /\ filename = ""
    /\ archive \in AppArchives
    /\ hashSeed \in HashSeeds
    /\ pc = "idle"
    /\ extract_dir = NoExtractDir
    /\ project_info = NewProjectInfo("")
    /\ walked = 0
    /\ outcome = Running
    /\ history = <<>>
    /\ tmpdirs = {}
    /\ made = 0
    /\ handler = Idle
    /\ client = NoUpload
    /\ log = <<>>

SpecApp == InitApp /\ [][NextApp]_vars

\* a /compile request that carries the project_info of a successful /upload
\* has reached compile_mit_project
CompilingUpload ==
    /\ handler.route = "compile"
    /\ handler.step \in {"compiled", "failed"}
    /\ handler.fromUpload

\* C14: a /compile request that follows a successful /upload and carries the
\* file name that upload returned compiles the uploaded archive, not a
\* generated mock archive.
C14_CompilesUploadedArchive ==
    CompilingUpload => handler.source = "uploaded"

\* a compilation that carried an /upload response and succeeded was served
\* after request number req
CompiledAfter(req) ==
    \E i \in (req + 1)..Len(log) :
        log[i].route = "compile" /\ log[i].status = 200 /\ log[i].fromUpload

\* C15: every temporary directory a handler made is removed: between requests
\* none made by /project-info or /compile exists, and one made by /upload
\* exists only as long as no compilation has followed that upload.
C15_TempDirsRemoved ==
    handler = Idle =>
        \A d \in tmpdirs : d.by = "upload" /\ ~CompiledAfter(d.req)

====
